---- MODULE Spec2Model ----
(***************************************************************************)
(* Model of modules/analytics/clustering.py (Course Builder): the student  *)
(* vector extraction, the Hamming-style distance, the cluster              *)
(* classification (ClusteringGenerator.map) and the aggregation            *)
(* (ClusteringGenerator.reduce).                                           *)
(*                                                                         *)
(* Python values are modelled as tagged records so that values of          *)
(* different Python types can be compared: None, strings and numbers.      *)
(* Numbers are IEEE 754 doubles (non-negative; an integer is the double of *)
(* its value), with the rounding of Python's float arithmetic.  Python     *)
(* dicts are functions on their keys and dict.get is Get below; the dict   *)
(* whose items ClusteringGenerator.map iterates is the hash table of       *)
(* Python 2.7, so that its items come in the order of the code.            *)
(***************************************************************************)
EXTENDS Integers, Sequences, FiniteSets, Bags, TLC

VARIABLES
    fn_call,            \* SpecFn: the pending call of a function: its name and arguments
    fn_pc,              \* SpecFn: "call" before the function has run, "done" after
    fn_ret,             \* SpecFn: the value the call returned (None before it)
    StudentAggregateEntity,  \* student -> the decoded data of its entity (input)
    course_dimensions,  \* what get_possible_dimensions returns for the course (input)
    cluster_entities,   \* ClusterDAO.get_all(): the clusters, id and vector (input)
    StudentVector,      \* student -> NoEntity or its entity [vector]
    StudentClusters,    \* student -> NoEntity or its entity [clusters]
    job,                \* "idle", "vectors", "clustering" or "reduce"
    job_params,         \* the mapper parameters of the running job
    pending,            \* entities the running job has still to map
    map_output,         \* the bag of the (key, value) pairs that the calls of
                        \* ClusteringGenerator.map yielded
    reduce_pending,     \* keys of map_output still to reduce
    job_results,        \* key -> what ClusteringGenerator.reduce yielded for it
    runs,               \* completed batch runs
    last_run,           \* history: the inputs of the most recent run
    previous,           \* history: NoRun, or what the previous run left when the
                        \* current run started on the inputs of the previous one
    map_calls           \* student -> NoCall, or the call of ClusteringGenerator.map on
                        \* its vector that has been started and has not returned

fnvars == <<fn_call, fn_pc, fn_ret>>

inputs == <<StudentAggregateEntity, course_dimensions, cluster_entities>>

pvars == <<StudentAggregateEntity, course_dimensions, cluster_entities, StudentVector,
           StudentClusters, job, job_params, pending, map_output,
           reduce_pending, job_results, runs, last_run, previous,
           map_calls>>

vars == <<fnvars, pvars>>

(***************************************************************************)
(* Python values                                                           *)
(***************************************************************************)
None == [t |-> "None"]
Str(s) == [t |-> "str", s |-> s]
EmptyStr == Str("")

\* max and min of two integers.
IntMax(a, b) == IF a >= b THEN a ELSE b
IntMin(a, b) == IF a <= b THEN a ELSE b

\* Python's float is the IEEE 754 double.  The mantissa of a double has 53
\* bits, so it is kept as a natural number of any size: the sequence of its
\* digits in base LimbBase, least significant first, without a leading zero
\* digit (0 is <<>>).
LimbBase == 32768
LimbBits == 15
MantissaBits == 53

RECURSIVE Pow2(_)
Pow2(k) == IF k = 0 THEN 1 ELSE 2 * Pow2(k - 1)

RECURSIVE SmallBitLength(_)
SmallBitLength(x) == IF x = 0 THEN 0 ELSE 1 + SmallBitLength(x \div 2)

RECURSIVE NatNorm(_)
NatNorm(a) ==
    IF a # <<>> /\ a[Len(a)] = 0 THEN NatNorm(SubSeq(a, 1, Len(a) - 1)) ELSE a

RECURSIVE NatFromInt(_)
NatFromInt(n) ==
    IF n = 0 THEN <<>> ELSE <<n % LimbBase>> \o NatFromInt(n \div LimbBase)

\* a + b + carry.
RECURSIVE NatAdd(_, _, _)
NatAdd(a, b, carry) ==
    IF a = <<>> /\ b = <<>> THEN NatFromInt(carry)
    ELSE LET x == (IF a = <<>> THEN 0 ELSE a[1]) + (IF b = <<>> THEN 0 ELSE b[1]) + carry
         IN  <<x % LimbBase>> \o NatAdd(IF a = <<>> THEN a ELSE Tail(a),
                                        IF b = <<>> THEN b ELSE Tail(b),
                                        x \div LimbBase)

\* a * k + carry for 0 < k <= LimbBase.
RECURSIVE NatMulSmall(_, _, _)
NatMulSmall(a, k, carry) ==
    IF a = <<>> THEN NatFromInt(carry)
    ELSE LET x == a[1] * k + carry
         IN  <<x % LimbBase>> \o NatMulSmall(Tail(a), k, x \div LimbBase)

\* Quotient and remainder of a by k, 0 < k <= LimbBase: long division from
\* the most significant digit (digit i downwards, r the running remainder).
RECURSIVE NatDivLoop(_, _, _, _)
NatDivLoop(a, k, i, r) ==
    IF i = 0 THEN [q |-> <<>>, r |-> r]
    ELSE LET x == r * LimbBase + a[i]
             rest == NatDivLoop(a, k, i - 1, x % k)
         IN  [q |-> rest.q \o <<x \div k>>, r |-> rest.r]

NatDivSmall(a, k) ==
    LET res == NatDivLoop(a, k, Len(a), 0)
    IN  [q |-> NatNorm(res.q), r |-> res.r]

NatBitLength(a) ==
    IF a = <<>> THEN 0
    ELSE LimbBits * (Len(a) - 1) + SmallBitLength(a[Len(a)])

\* a * 2^k.
RECURSIVE NatShl(_, _)
NatShl(a, k) ==
    IF a = <<>> \/ k = 0 THEN a
    ELSE IF k >= LimbBits THEN <<0>> \o NatShl(a, k - LimbBits)
    ELSE NatMulSmall(a, Pow2(k), 0)

\* a \div 2^k, and whether a bit was shifted out.
RECURSIVE NatShr(_, _, _)
NatShr(a, k, sticky) ==
    IF a = <<>> \/ k = 0 THEN [q |-> a, sticky |-> sticky]
    ELSE IF k >= LimbBits THEN NatShr(Tail(a), k - LimbBits, sticky \/ a[1] # 0)
    ELSE LET res == NatDivSmall(a, Pow2(k))
         IN  [q |-> res.q, sticky |-> sticky \/ res.r # 0]

\* -1, 0 or 1 as a is below, equal to or above b.
NatCmp(a, b) ==
    IF Len(a) < Len(b) THEN -1
    ELSE IF Len(a) > Len(b) THEN 1
    ELSE IF a = b THEN 0
    ELSE LET i == CHOOSE n \in DOMAIN a :
                      a[n] # b[n] /\ \A j \in DOMAIN a : j > n => a[j] = b[j]
         IN  IF a[i] < b[i] THEN -1 ELSE 1

\* The double m * 2^e for a natural m below 2^53, in its one representation:
\* m odd, or m = 0 and e = 0.
RECURSIVE Float(_, _)
Float(m, e) ==
    IF m = <<>> THEN [t |-> "num", m |-> <<>>, e |-> 0]
    ELSE IF m[1] = 0 THEN Float(Tail(m), e + LimbBits)
    ELSE IF m[1] % 2 = 0 THEN Float(NatDivSmall(m, 2).q, e + 1)
    ELSE [t |-> "num", m |-> m, e |-> e]

\* The double nearest to m * 2^e, ties to the even mantissa (the values of
\* this module stay far from the overflow and subnormal ranges).
Round(m, e) ==
    LET n == NatBitLength(m)
    IN  IF n <= MantissaBits THEN Float(m, e)
        ELSE LET sh == n - MantissaBits
                 kept == NatShr(m, sh - 1, FALSE)
                 guard == kept.q[1] % 2 = 1
                 half == NatDivSmall(kept.q, 2).q
                 up == guard /\ (kept.sticky \/ half[1] % 2 = 1)
             IN  Float(NatAdd(half, <<>>, IF up THEN 1 ELSE 0), e + sh)

\* Both mantissas at the smaller of the two exponents.
Aligned(a, b) ==
    LET e == IF a.e <= b.e THEN a.e ELSE b.e
    IN  [a |-> NatShl(a.m, a.e - e), b |-> NatShl(b.m, b.e - e), e |-> e]

Zero == Float(<<>>, 0)
IsNum(v) == v.t = "num"
NumLe(a, b) == NatCmp(Aligned(a, b).a, Aligned(a, b).b) <= 0
NumLt(a, b) == NatCmp(Aligned(a, b).a, Aligned(a, b).b) < 0

\* a + b of two floats: the exact sum, rounded once.
NumAdd(a, b) ==
    LET al == Aligned(a, b)
    IN  Round(NatAdd(al.a, al.b, 0), al.e)

\* a / float(k) for an integer 0 < k <= LimbBase: the exact quotient, rounded
\* once.  The mantissa is shifted left until the integer quotient has more
\* than 54 bits, and a remainder is kept as one more bit below them.
NumDivInt(a, k) ==
    IF a.m = <<>> THEN Zero
    ELSE LET p == IntMax(0, MantissaBits + 3 + SmallBitLength(k) - NatBitLength(a.m))
             res == NatDivSmall(NatShl(a.m, p), k)
             q2 == NatAdd(NatShl(res.q, 1), <<>>, IF res.r # 0 THEN 1 ELSE 0)
         IN  Round(q2, a.e - p - 1)

\* The float written n/d in decimal (0.6 is Num(3, 5)), n >= 0 and
\* 0 < d <= LimbBase: the double nearest to it.
Num(n, d) == NumDivInt(Float(NatFromInt(n), 0), d)

PyBool(b) == [t |-> "bool", b |-> b]

\* Python truthiness of None, a string, a number or a bool.
Truthy(v) ==
    CASE v.t = "None" -> FALSE
      [] v.t = "str" -> v.s # ""
      [] v.t = "num" -> v.m # <<>>
      [] v.t = "bool" -> v.b

\* dict.get(key): None when the key is absent.
Get(dict, key) == IF key \in DOMAIN dict THEN dict[key] ELSE None

(***************************************************************************)
(* Module constants (clustering.py lines 45-55)                            *)
(***************************************************************************)
DIMENSION_TYPE_UNIT == "u"
DIMENSION_TYPE_LESSON == "l"
DIMENSION_TYPE_QUESTION == "q"
DIM_TYPE == "type"
DIM_ID == "id"
DIM_HIGH == "high"
DIM_LOW == "low"
DIM_EXTRA_INFO == "extra-info"
DIM_VALUE == "value"

(***************************************************************************)
(* hamming_distance and its helpers                                        *)
(***************************************************************************)
_has_right_side(dim) == Get(dim, DIM_HIGH) # None /\ Get(dim, DIM_HIGH) # EmptyStr

_has_left_side(dim) == Get(dim, DIM_LOW) # None /\ Get(dim, DIM_LOW) # EmptyStr

\* StudentVector.get_dimension_value: the value of the first entry with the
\* id and the type, None when there is none.
get_dimension_value(vector, dim_id, dim_type) ==
    LET candidates == SelectSeq(vector,
            LAMBDA dim : dim[DIM_ID] = dim_id /\ dim[DIM_TYPE] = dim_type)
    IN  IF candidates # <<>> THEN candidates[1][DIM_VALUE] ELSE None

fits_left_side_strict(dim, value) == ~_has_left_side(dim) \/ NumLt(dim[DIM_LOW], value)

fits_left_side(dim, value) == ~_has_left_side(dim) \/ NumLe(dim[DIM_LOW], value)

fits_right_side_required(dim, value) ==
    _has_right_side(dim) /\ NumLe(value, dim[DIM_HIGH])

fits_right_side(dim, value) == ~_has_right_side(dim) \/ NumLe(value, dim[DIM_HIGH])

\* One iteration of the loop of hamming_distance: 1 when dim rejects, else 0.
hamming_step(dim, student_vector) ==
    LET found == get_dimension_value(student_vector, dim[DIM_ID], dim[DIM_TYPE])
        value == IF ~Truthy(found) THEN Zero ELSE found
    IN  IF ~fits_left_side(dim, value) \/ ~fits_right_side(dim, value)
        THEN 1 ELSE 0

RECURSIVE hamming_loop(_, _, _, _)
hamming_loop(vector, student_vector, i, distance) ==
    IF i > Len(vector) THEN distance
    ELSE hamming_loop(vector, student_vector, i + 1,
                      distance + hamming_step(vector[i], student_vector))

hamming_distance_from_one(vector, student_vector) ==
    hamming_loop(vector, student_vector, 1, 1)

hamming_distance(vector, student_vector) ==
    hamming_loop(vector, student_vector, 1, 0)

(***************************************************************************)
(* StudentVectorGenerator: the scores of the dimensions                    *)
(***************************************************************************)
\* str() of an id: a string, or None.
PyStr(v) == IF v = None THEN "None" ELSE v.s

pack_question_dimid(unit_id, lesson_id, question_id) ==
    Str(PyStr(unit_id) \o ":" \o PyStr(lesson_id) \o ":" \o PyStr(question_id))

\* One iteration of the loop of _get_question_score (lines 563-570); st
\* holds last_scores and last_timestamp.
question_step(answer, st) ==
    LET score == Get(answer, "weighted_score")
    IN  IF Truthy(score) /\ answer["timestamp"] > st.last_timestamp
        THEN [last_scores |-> <<score>>, last_timestamp |-> answer["timestamp"]]
        ELSE IF Truthy(score) /\ answer["timestamp"] = st.last_timestamp
        THEN [last_scores |-> Append(st.last_scores, score),
              last_timestamp |-> st.last_timestamp]
        ELSE st

RECURSIVE question_loop(_, _, _)
question_loop(data, i, st) ==
    IF i > Len(data) THEN st
    ELSE question_loop(data, i + 1, question_step(data[i], st))

\* The exact sum of a list of floats, as mantissa and exponent.
RECURSIVE exact_sum(_)
exact_sum(scores) ==
    IF scores = <<>> THEN [m |-> <<>>, e |-> 0]
    ELSE LET al == Aligned(scores[1], exact_sum(Tail(scores)))
         IN  [m |-> NatAdd(al.a, al.b, 0), e |-> al.e]

\* math.fsum of a list of floats: the exact sum, rounded once at the end.
fsum(scores) == Round(exact_sum(scores).m, exact_sum(scores).e)

_get_question_score(data, unused_dimension) ==
    LET st == question_loop(data, 1, [last_scores |-> <<>>, last_timestamp |-> 0])
    IN  IF st.last_scores # <<>>
        THEN NumDivInt(fsum(st.last_scores), Len(st.last_scores))
        ELSE Zero

\* The first submission with a lesson_id equal to the dimension's id and a
\* last_score gives the score (lines 578-582).
RECURSIVE lesson_loop(_, _, _)
lesson_loop(data, dimension, i) ==
    IF i > Len(data) THEN Zero
    ELSE IF /\ "lesson_id" \in DOMAIN data[i]
            /\ "last_score" \in DOMAIN data[i]
            /\ data[i]["lesson_id"] = dimension[DIM_ID]
         THEN data[i]["last_score"]
         ELSE lesson_loop(data, dimension, i + 1)

_get_lesson_score(data, dimension) == lesson_loop(data, dimension, 1)

scored_lessons_one(dimension) == 1

\* The divisor of _get_unit_score (lines 591-598).  extra-info is the JSON
\* text of a dict.
scored_lessons(dimension) ==
    IF DIM_EXTRA_INFO \notin DOMAIN dimension THEN 1
    ELSE LET extra_info == dimension[DIM_EXTRA_INFO].d
         IN  IF "unit_scored_lessons" \notin DOMAIN extra_info THEN 1
             ELSE IntMax(extra_info["unit_scored_lessons"], 1)

\* The sum of _get_unit_score (lines 599-603).
RECURSIVE unit_loop(_, _, _, _)
unit_loop(data, dimension, i, score) ==
    IF i > Len(data) THEN score
    ELSE unit_loop(data, dimension, i + 1,
                   IF /\ "unit_id" \in DOMAIN data[i]
                      /\ "last_score" \in DOMAIN data[i]
                      /\ data[i]["unit_id"] = dimension[DIM_ID]
                   THEN NumAdd(score, data[i]["last_score"])
                   ELSE score)

_get_unit_score(data, dimension) ==
    NumDivInt(unit_loop(data, dimension, 1, Zero), scored_lessons(dimension))

\* DIMENSION_FUNCTIONS and get_function_for_dimension, applied.
dimension_score(data, dimension) ==
    CASE dimension[DIM_TYPE] = DIMENSION_TYPE_QUESTION -> _get_question_score(data, dimension)
      [] dimension[DIM_TYPE] = DIMENSION_TYPE_LESSON -> _get_lesson_score(data, dimension)
      [] dimension[DIM_TYPE] = DIMENSION_TYPE_UNIT -> _get_unit_score(data, dimension)

(***************************************************************************)
(* StudentVectorGenerator.map                                              *)
(***************************************************************************)
\* dict.get(key, []) on a dict of lists.
GetList(dict, key) == IF key \in DOMAIN dict THEN dict[key] ELSE <<>>

\* result[key].append(item) on a defaultdict(lambda: []).
AppendTo(result, key, item) ==
    [k \in DOMAIN result \cup {key} |->
        IF k = key THEN Append(GetList(result, key), item) ELSE result[k]]

\* The loop over the answers of a submission (lines 542-547): the answer
\* gets the timestamp of its submission and goes to its question dimension.
RECURSIVE answers_loop(_, _, _, _, _, _)
answers_loop(answers, timestamp, activity_unit, activity_lesson, i, result) ==
    IF i > Len(answers) THEN result
    ELSE LET answer == ("timestamp" :> timestamp) @@ answers[i]
             dim_id == pack_question_dimid(activity_unit, activity_lesson,
                                           Get(answers[i], "question_id"))
         IN  answers_loop(answers, timestamp, activity_unit, activity_lesson, i + 1,
                          AppendTo(result, <<DIMENSION_TYPE_QUESTION, dim_id>>, answer))

\* The loop over the submissions of an activity (line 541).
RECURSIVE submissions_loop(_, _, _, _, _)
submissions_loop(submissions, activity_unit, activity_lesson, i, result) ==
    IF i > Len(submissions) THEN result
    ELSE submissions_loop(submissions, activity_unit, activity_lesson, i + 1,
             answers_loop(GetList(submissions[i], "answers"),
                          submissions[i]["timestamp"],
                          activity_unit, activity_lesson, 1, result))

\* The activity as the lists of the result hold it when the function
\* returns: the lists hold the activity object itself (lines 539-540), and
\* line 544 writes the timestamp of the submission into each answer of it.
stamped_activity(activity) ==
    IF "submissions" \notin DOMAIN activity THEN activity
    ELSE [activity EXCEPT !["submissions"] =
             [n \in DOMAIN @ |->
                 LET submission == activity["submissions"][n]
                 IN  IF "answers" \notin DOMAIN submission THEN submission
                     ELSE [submission EXCEPT !["answers"] =
                              [a \in DOMAIN @ |->
                                  ("timestamp" :> submission["timestamp"]) @@ @[a]]]]]

\* The loop over the activities (lines 534-547).
RECURSIVE activities_loop(_, _, _)
activities_loop(raw_data, i, result) ==
    IF i > Len(raw_data) THEN result
    ELSE LET activity == raw_data[i]
             activity_lesson == Get(activity, "lesson_id")
             activity_unit == Get(activity, "unit_id")
             with_unit == AppendTo(result, <<DIMENSION_TYPE_UNIT, activity_unit>>,
                                   stamped_activity(activity))
             with_lesson == AppendTo(with_unit,
                                     <<DIMENSION_TYPE_LESSON, activity_lesson>>,
                                     stamped_activity(activity))
         IN  activities_loop(raw_data, i + 1,
                 submissions_loop(GetList(activity, "submissions"),
                                  activity_unit, activity_lesson, 1, with_lesson))

\* _inverse_submission_data: (type, id) -> the records relevant to it; a
\* key that is not in the result reads as [] (defaultdict).
_inverse_submission_data(dimensions, raw_data) ==
    activities_loop(raw_data, 1, <<>>)

\* The vector of lines 503-512: one entry per possible dimension.
student_vector_of(possible_dimensions, data) ==
    [i \in DOMAIN possible_dimensions |->
        LET dim == possible_dimensions[i]
            data_for_dimension == GetList(data, <<dim[DIM_TYPE], dim[DIM_ID]>>)
        IN  (DIM_TYPE :> dim[DIM_TYPE]) @@ (DIM_ID :> dim[DIM_ID])
            @@ (DIM_VALUE :> dimension_score(data_for_dimension, dim))]

\* 'if not raw_data: return' (lines 499-500).
skips(raw_data) == raw_data = <<>>

\* StudentVectorGenerator.map on the StudentAggregateEntity (name, item_data):
\* the StudentVector entities it puts (none or one).  The vector is stored
\* as JSON text and read back by ClusteringGenerator.map; lists, dicts with
\* string keys, strings and numbers come back as they went in.
StudentVectorGenerator_map(name, item_data, params) ==
    LET raw_data == GetList(item_data, "assessments")
    IN  IF skips(raw_data) THEN <<>>
        ELSE <<[key_name |-> name,
                vector |-> student_vector_of(params.possible_dimensions,
                              _inverse_submission_data(params.possible_dimensions,
                                                       raw_data))]>>

(***************************************************************************)
(* JSON text (transforms.dumps / transforms.loads), modelled by the value  *)
(* it denotes: a number, or a list (a Python tuple is dumped as a list).   *)
(* A dict is dumped with its keys turned into strings.                     *)
(***************************************************************************)
JsonInt(i) == [json |-> "int", i |-> i]
JsonList(l) == [json |-> "list", l |-> l]
JsonDict(d) == [json |-> "dict", d |-> d]

\* transforms.dumps of a dict keyed by integers: the keys become strings.
DumpsDict(dict) ==
    [k \in {ToString(i) : i \in DOMAIN dict} |->
        dict[CHOOSE i \in DOMAIN dict : ToString(i) = k]]

(***************************************************************************)
(* get_possible_dimensions                                                 *)
(***************************************************************************)
\* The loop over the questions of an item (lines 229-239).
RECURSIVE questions_loop(_, _, _, _)
questions_loop(unit, item, i, result) ==
    IF i > Len(item["questions"]) THEN result
    ELSE LET question == item["questions"][i]
             lesson_id == Get(item, "lesson_id")
             included_assessment_id == Get(item, "unit_id")
             question_id ==
                 IF Truthy(included_assessment_id)
                 THEN pack_question_dimid(included_assessment_id, None, question["id"])
                 ELSE pack_question_dimid(unit["unit_id"], lesson_id, question["id"])
         IN  questions_loop(unit, item, i + 1,
                 Append(result, (DIM_TYPE :> DIMENSION_TYPE_QUESTION)
                                @@ (DIM_ID :> question_id)
                                @@ ("name" :> question["description"])))

\* One iteration of the loop over the contents of a unit (lines 210-239);
\* st holds result and unit_scored_lessons.
contents_step(unit, item, st) ==
    LET lesson_id == Get(item, "lesson_id")
        included_assessment_id == Get(item, "unit_id")
        lesson_title == Get(item, "title")
        own == IF Truthy(lesson_title) /\ Truthy(lesson_id) /\ Truthy(Get(item, "tallied"))
               THEN [result |-> Append(st.result,
                                    (DIM_TYPE :> DIMENSION_TYPE_LESSON)
                                    @@ (DIM_ID :> lesson_id) @@ ("name" :> lesson_title)),
                     unit_scored_lessons |-> st.unit_scored_lessons + 1]
               ELSE IF Truthy(included_assessment_id) /\ Truthy(lesson_title)
               THEN [result |-> Append(st.result,
                                    (DIM_TYPE :> DIMENSION_TYPE_UNIT)
                                    @@ (DIM_ID :> included_assessment_id)
                                    @@ ("name" :> lesson_title)),
                     unit_scored_lessons |-> st.unit_scored_lessons + 1]
               ELSE st
    IN  [result |-> questions_loop(unit, item, 1, own.result),
         unit_scored_lessons |-> own.unit_scored_lessons]

RECURSIVE contents_loop(_, _, _)
contents_loop(unit, i, st) ==
    IF i > Len(unit["contents"]) THEN st
    ELSE contents_loop(unit, i + 1, contents_step(unit, unit["contents"][i], st))

\* The loop over the units (lines 200-242): unit_dict is appended first and
\* gets its extra-info, the JSON text of the count, after its contents.
RECURSIVE units_loop(_, _, _)
units_loop(units, i, result) ==
    IF i > Len(units) THEN result
    ELSE LET unit == units[i]
             unit_dict == (DIM_TYPE :> DIMENSION_TYPE_UNIT)
                          @@ (DIM_ID :> unit["unit_id"]) @@ ("name" :> unit["title"])
             st == contents_loop(unit, 1, [result |-> Append(result, unit_dict),
                                           unit_scored_lessons |-> 0])
             extra_info == JsonDict("unit_scored_lessons" :> st.unit_scored_lessons)
         IN  units_loop(units, i + 1,
                 [st.result EXCEPT ![Len(result) + 1] =
                     unit_dict @@ (DIM_EXTRA_INFO :> extra_info)])

\* get_possible_dimensions on template_values['units'], which
\* OrderedQuestionsDataSource.fill_values provides.
get_possible_dimensions(units) == units_loop(units, 1, <<>>)

(***************************************************************************)
(* ClusteringGenerator.map                                                 *)
(***************************************************************************)
MIN_DISTANCE == 0
MAX_DISTANCE == 2

\* build_additional_mapper_params: the clusters and the maximum distance.
ClusteringMapperParams(clusters) ==
    [clusters |-> clusters, max_distance |-> MAX_DISTANCE]

exceeds_or_reaches(distance, max_distance) == distance >= max_distance

\* The test that discards a cluster (line 700).
exceeds(distance, max_distance) == distance > max_distance

pair_key_swapped(cluster2_id, cluster_id) == JsonList(<<cluster_id, cluster2_id>>)

\* The key of a pairwise observation (line 703): the cluster retained
\* earlier first, the current cluster second.
pair_key(cluster2_id, cluster_id) == JsonList(<<cluster2_id, cluster_id>>)

\* The value of a pairwise observation (line 704): the student, the
\* distance to the current cluster, the distance to the earlier cluster.
pair_value(name, distance, distance2) == JsonList(<<name, distance, distance2>>)

\* The dict clusters (line 697) is the hash table of Python 2.7: a table of
\* PyDict_MINSIZE slots (a power of two), each empty or holding one (key,
\* value); the keys are cluster ids, positive integers, whose hash is the
\* integer itself.  used counts the slots in use (nothing is ever deleted).
PyDict_MINSIZE == 8
PERTURB_SHIFT == 5

NoSlot == [t |-> "empty"]

new_dict(size) == [size |-> size, used |-> 0, table |-> [i \in 0 .. size - 1 |-> NoSlot]]

\* The slot of key: the first slot on the probe sequence of its hash that is
\* empty or holds the key.  i is the slot probed, perturb the rest of the
\* hash.
RECURSIVE lookdict(_, _, _, _)
lookdict(dict, key, i, perturb) ==
    IF dict.table[i] = NoSlot \/ dict.table[i][1] = key THEN i
    ELSE lookdict(dict, key, (5 * i + perturb + 1) % dict.size,
                  perturb \div Pow2(PERTURB_SHIFT))

insertdict(dict, key, value) ==
    LET i == lookdict(dict, key, key % dict.size, key)
    IN  [dict EXCEPT !.table[i] = <<key, value>>,
                     !.used = IF dict.table[i] = NoSlot THEN @ + 1 ELSE @]

RECURSIVE resized_size(_, _)
resized_size(newsize, minused) ==
    IF newsize > minused THEN newsize ELSE resized_size(2 * newsize, minused)

\* The entries of the table from slot i on, inserted into the dict new.
RECURSIVE reinsert(_, _, _)
reinsert(dict, i, new) ==
    IF i >= dict.size THEN new
    ELSE reinsert(dict, i + 1,
                  IF dict.table[i] = NoSlot THEN new
                  ELSE insertdict(new, dict.table[i][1], dict.table[i][2]))

\* clusters[key] = value (line 706): the table grows to the first power of
\* two above four times the entries once two thirds of it are in use.
PyDict_SetItem(dict, key, value) ==
    LET set == insertdict(dict, key, value)
    IN  IF set.used > dict.used /\ set.used * 3 >= set.size * 2
        THEN reinsert(set, 0, new_dict(resized_size(PyDict_MINSIZE, 4 * set.used)))
        ELSE set

\* clusters.items() (line 702): the (key, value) pairs in the order of their
\* slots in the table.
Items(dict) ==
    SelectSeq([n \in 1 .. dict.size |-> dict.table[n - 1]], LAMBDA slot : slot # NoSlot)

\* The mapping the dict denotes: key -> value.
Mapping(dict) ==
    LET items == Items(dict)
    IN  [k \in {items[n][1] : n \in DOMAIN items} |->
            items[CHOOSE n \in DOMAIN items : items[n][1] = k][2]]

\* The inner loop (lines 702-705): one pairwise observation per cluster
\* retained so far.
pair_yields(name, cluster_id, distance, clusters) ==
    LET items == Items(clusters)
    IN  [n \in DOMAIN items |->
            <<pair_key(items[n][1], cluster_id),
              pair_value(name, distance, items[n][2])>>]

map_step_yield_first(name, item_vector, cluster, max_distance, st) ==
    LET distance == hamming_distance(cluster.vector, item_vector)
        yielded == st.yields \o <<<<JsonInt(cluster.id), JsonList(<<name, distance>>)>>>>
    IN  IF exceeds(distance, max_distance) THEN [st EXCEPT !.yields = yielded]
        ELSE [clusters |-> PyDict_SetItem(st.clusters, cluster.id, distance),
              yields |-> yielded
                         \o pair_yields(name, cluster.id, distance, st.clusters)]

\* One iteration of the loop over the clusters (lines 698-708).  st holds
\* the dict clusters and the sequence of (key, value) yielded so far.  The
\* key cluster['id'] reaches reduce as its JSON text.
map_step(name, item_vector, cluster, max_distance, st) ==
    LET distance == hamming_distance(cluster.vector, item_vector)
    IN  IF exceeds(distance, max_distance) THEN st
        ELSE [clusters |-> PyDict_SetItem(st.clusters, cluster.id, distance),
              yields |-> st.yields
                         \o pair_yields(name, cluster.id, distance, st.clusters)
                         \o <<<<JsonInt(cluster.id), JsonList(<<name, distance>>)>>>>]

RECURSIVE map_loop(_, _, _, _, _, _)
map_loop(name, item_vector, clusters, max_distance, i, st) ==
    IF i > Len(clusters) THEN st
    ELSE map_loop(name, item_vector, clusters, max_distance, i + 1,
                  map_step(name, item_vector, clusters[i], max_distance, st))

\* ClusteringGenerator.map on the StudentVector entity (name, item_vector):
\* what it yields and the StudentClusters entity it puts.
ClusteringGenerator_map(name, item_vector, mapper_params) ==
    LET st == map_loop(name, item_vector, mapper_params.clusters,
                       mapper_params.max_distance, 1,
                       [clusters |-> new_dict(PyDict_MINSIZE), yields |-> <<>>])
    IN  [yields |-> st.yields,
         put |-> [key_name |-> name, clusters |-> DumpsDict(Mapping(st.clusters))]]

(***************************************************************************)
(* ClusteringGenerator.reduce                                              *)
(***************************************************************************)
pair_distance_min(value) == IntMin(value.l[2], value.l[3])

pair_distance_first(value) == value.l[2]

\* min_distance of a pairwise observation (line 735).
pair_distance(value) == IntMax(value.l[2], value.l[3])

\* distances[key] += 1 on a defaultdict(lambda: 0).
Increment(distances, key) ==
    [k \in DOMAIN distances \cup {key} |->
        IF k = key THEN (IF key \in DOMAIN distances THEN distances[key] ELSE 0) + 1
        ELSE distances[k]]

RECURSIVE count_loop_first(_, _, _, _)
count_loop_first(is_pair, values, i, distances) ==
    IF i > Len(values) THEN distances
    ELSE count_loop_first(is_pair, values, i + 1,
                          Increment(distances,
                                    IF is_pair THEN pair_distance(values[1])
                                    ELSE values[1].l[2]))

\* The loops over values (lines 733-736 and 740-742).
RECURSIVE count_loop(_, _, _, _)
count_loop(is_pair, values, i, distances) ==
    IF i > Len(values) THEN distances
    ELSE count_loop(is_pair, values, i + 1,
                    Increment(distances,
                              IF is_pair THEN pair_distance(values[i])
                              ELSE values[i].l[2]))

SetMax(S) == CHOOSE x \in S : \A y \in S : y <= x

\* list_distances before the accumulation (lines 744-746); index d of the
\* Python list is position d + 1 of the sequence.
spread(distances) ==
    [p \in 1..(SetMax(DOMAIN distances) + 1) |->
        IF (p - 1) \in DOMAIN distances THEN distances[p - 1] ELSE 0]

accumulate_none(list_distances, index) == list_distances

\* The accumulation (lines 748-749), from Python index `index` on.
RECURSIVE accumulate(_, _)
accumulate(list_distances, index) ==
    IF index >= Len(list_distances) THEN list_distances
    ELSE accumulate([list_distances EXCEPT ![index + 1] = @ + list_distances[index]],
                    index + 1)

\* ClusteringGenerator.reduce: the tuple it yields (as JSON text).  values is
\* not empty: the framework calls reduce for the keys that map yielded.
ClusteringGenerator_reduce(item_id, values) ==
    LET is_pair == item_id.json = "list"
        stat_name == IF is_pair THEN "intersection" ELSE "count"
        loaded_id == IF is_pair THEN item_id.l ELSE item_id.i
        distances == count_loop(is_pair, values, 1, <<>>)
    IN  JsonList(<<stat_name, <<loaded_id, accumulate(spread(distances), 1)>>>>)

(***************************************************************************)
(* Inputs of the function calls                                            *)
(***************************************************************************)
MaxDims == 2          \* dimensions in a cluster's vector

\* The (type, id) pairs of the dimensions used as inputs.
DimKeys == {<<DIMENSION_TYPE_UNIT, Str("1")>>, <<DIMENSION_TYPE_LESSON, Str("1")>>}

\* A bound of a cluster dimension: the key absent, None, '' or a number.
NoKey == [t |-> "nokey"]
LowChoices == {NoKey, None, EmptyStr, Num(1, 1)}
HighChoices == {NoKey, None, EmptyStr, Num(2, 1)}

\* A student's value for a dimension: no entry, or a score (below the low
\* bound, on it, on the high bound, above it).
ValueChoices == {NoKey, Zero, Num(1, 1), Num(2, 1), Num(3, 1)}

\* A dimension of a cluster: a dict with type and id and, optionally, low and high.
ClusterDim(key, low, high) ==
    LET base == (DIM_TYPE :> key[1]) @@ (DIM_ID :> key[2])
        withLow == IF low = NoKey THEN base ELSE base @@ (DIM_LOW :> low)
    IN  IF high = NoKey THEN withLow ELSE withLow @@ (DIM_HIGH :> high)

\* The cluster invariant low <= high, which the editor's validation keeps.
WellOrdered(low, high) == (IsNum(low) /\ IsNum(high)) => NumLe(low, high)

ClusterDims ==
    {ClusterDim(key, b[1], b[2]) :
        key \in DimKeys,
        b \in {c \in LowChoices \X HighChoices : WellOrdered(c[1], c[2])}}

RECURSIVE SeqsUpTo(_, _)
SeqsUpTo(S, n) ==
    IF n = 0 THEN {<<>>}
    ELSE LET shorter == SeqsUpTo(S, n - 1)
         IN  shorter \cup {Append(s, x) : s \in {q \in shorter : Len(q) = n - 1}, x \in S}

StudentDim(key, value) ==
    (DIM_TYPE :> key[1]) @@ (DIM_ID :> key[2]) @@ (DIM_VALUE :> value)

\* Student vectors: for each key, in a fixed order, no entry or one entry.
StudentVectors ==
    {LET u == IF vu = NoKey THEN <<>>
              ELSE <<StudentDim(<<DIMENSION_TYPE_UNIT, Str("1")>>, vu)>>
         l == IF vl = NoKey THEN <<>>
              ELSE <<StudentDim(<<DIMENSION_TYPE_LESSON, Str("1")>>, vl)>>
     IN  u \o l : vu \in ValueChoices, vl \in ValueChoices}

UnitKey == <<DIMENSION_TYPE_UNIT, Str("1")>>
LessonKey == <<DIMENSION_TYPE_LESSON, Str("1")>>

MaxClusters == 3      \* clusters in the cluster set of one call of map

\* The clusters of the calls of map; cluster 2 can reject in three
\* dimensions, cluster 9 in two, cluster 4 has no dimension.  The ids 1 and
\* 9 have the same first slot in the dict of map.
ClusterPool ==
    {[id |-> 1, vector |-> <<ClusterDim(UnitKey, Num(1, 1), NoKey)>>],
     [id |-> 2, vector |-> <<ClusterDim(UnitKey, Num(1, 1), Num(2, 1)),
                             ClusterDim(LessonKey, Num(1, 1), None),
                             ClusterDim(UnitKey, Num(1, 1), EmptyStr)>>],
     [id |-> 3, vector |-> <<ClusterDim(LessonKey, None, Num(2, 1))>>],
     [id |-> 4, vector |-> <<>>],
     [id |-> 9, vector |-> <<ClusterDim(UnitKey, Num(1, 1), NoKey),
                             ClusterDim(LessonKey, Num(1, 1), NoKey)>>]}

\* Cluster sets: lists of clusters with distinct ids (ClusterDAO.get_all).
ClusterLists ==
    {l \in SeqsUpTo(ClusterPool, MaxClusters) :
        \A i, j \in DOMAIN l : l[i].id = l[j].id => i = j}

MaxValues == 4        \* observations in the group of one call of reduce

\* The student of the n-th observation of a group.
StudentName(n) == "s" \o ToString(n)

\* Distances that map yields: 0 .. max_distance.
YieldedDistances == 0..MAX_DISTANCE

\* The groups of per-cluster observations: (student, distance) tuples.
CountGroups ==
    {[n \in DOMAIN ds |-> JsonList(<<StudentName(n), ds[n]>>)] :
        ds \in SeqsUpTo(YieldedDistances, MaxValues) \ {<<>>}}

\* The groups of pairwise observations: (student, distance, distance) tuples.
PairGroups ==
    {[n \in DOMAIN ds |-> JsonList(<<StudentName(n), ds[n][1], ds[n][2]>>)] :
        ds \in SeqsUpTo(YieldedDistances \X YieldedDistances, MaxValues) \ {<<>>}}

MaxAnswers == 3       \* answers in the data of one call of _get_question_score
MaxRecords == 2       \* records in the data of one call of _get_unit_score

Timestamps == {5, 9}
WeightedScores == {NoKey, Zero, Num(3, 5), Num(4, 5), Num(1, 1)}

\* An answer as _inverse_submission_data leaves it: the timestamp of its
\* submission and, optionally, a weighted score.
Answer(timestamp, weighted_score) ==
    IF weighted_score = NoKey THEN ("timestamp" :> timestamp)
    ELSE ("timestamp" :> timestamp) @@ ("weighted_score" :> weighted_score)

Answers == {Answer(ts, ws) : ts \in Timestamps, ws \in WeightedScores}

\* An activity record: optional unit_id and last_score.
UnitRecord(unit_id, last_score) ==
    LET u == IF unit_id = NoKey THEN <<>> ELSE ("unit_id" :> unit_id)
    IN  IF last_score = NoKey THEN u ELSE u @@ ("last_score" :> last_score)

UnitRecords ==
    {UnitRecord(u, ls) : u \in {NoKey, Str("1"), Str("2")},
                         ls \in {NoKey, Num(1, 2), Num(1, 1)}}

\* A unit dimension of the catalog: extra-info absent, or the JSON text of a
\* dict without or with the count of scored lessons.
UnitDimension(extra) ==
    LET base == (DIM_TYPE :> DIMENSION_TYPE_UNIT) @@ (DIM_ID :> Str("1"))
    IN  IF extra = NoKey THEN base ELSE base @@ (DIM_EXTRA_INFO :> extra)

UnitDimensions ==
    {UnitDimension(NoKey), UnitDimension(JsonDict(<<>>))}
    \cup {UnitDimension(JsonDict("unit_scored_lessons" :> n)) : n \in 0..3}

MaxItems == 2         \* content items in the unit of one call of get_possible_dimensions
MaxQuestions == 1     \* questions in a content item

\* The content items without their questions: lessons (tallied, not tallied,
\* without the flag, without a title), assessments included in the unit
\* (they have a unit_id; with and without a title), an item with neither
\* id, and a tallied item with both ids.
ItemKinds ==
    {[lesson_id |-> Str("1"), title |-> Str("L1"), tallied |-> PyBool(TRUE)],
     [lesson_id |-> Str("2"), title |-> Str("L2"), tallied |-> PyBool(FALSE)],
     [lesson_id |-> Str("3"), title |-> Str("L3")],
     [lesson_id |-> Str("4"), title |-> EmptyStr, tallied |-> PyBool(TRUE)],
     [lesson_id |-> None, unit_id |-> Str("8"), title |-> Str("A8")],
     [unit_id |-> Str("9"), title |-> EmptyStr],
     [title |-> Str("T")],
     [lesson_id |-> Str("5"), unit_id |-> Str("6"), title |-> Str("L5"),
      tallied |-> PyBool(TRUE)]}

QuestionPool == {[id |-> Str("7"), description |-> Str("Q7")]}

ContentItems ==
    {kind @@ ("questions" :> questions) :
        kind \in ItemKinds, questions \in SeqsUpTo(QuestionPool, MaxQuestions)}

\* template_values['units']: one unit and its contents.
CourseUnits ==
    {<<[unit_id |-> Str("1"), title |-> Str("U1"), contents |-> contents]>> :
        contents \in SeqsUpTo(ContentItems, MaxItems)}

(***************************************************************************)
(* SpecFn: one call of a function on inputs drawn from bounded sets        *)
(***************************************************************************)
NoEntity == [t |-> "noentity"]
NoRun == [t |-> "norun"]
NoCall == [t |-> "nocall"]

\* The pipeline's variables in the specification of the function calls: no
\* entity, no job.
PipelineUnused ==
    /\ StudentAggregateEntity = <<>>
    /\ course_dimensions = <<>>
    /\ cluster_entities = <<>>
    /\ StudentVector = <<>>
    /\ StudentClusters = <<>>
    /\ job = "idle"
    /\ job_params = <<>>
    /\ pending = {}
    /\ map_output = <<>>
    /\ reduce_pending = {}
    /\ job_results = <<>>
    /\ runs = 0
    /\ last_run = NoRun
    /\ previous = NoRun
    /\ map_calls = <<>>

InitHamming ==
    /\ \E vector \in SeqsUpTo(ClusterDims, MaxDims), student_vector \in StudentVectors :
          fn_call = [fn |-> "hamming_distance", vector |-> vector,
                     student_vector |-> student_vector]
    /\ fn_pc = "call"
    /\ fn_ret = None
    /\ PipelineUnused

CallHamming ==
    /\ fn_pc = "call"
    /\ fn_call.fn = "hamming_distance"
    /\ fn_ret' = hamming_distance(fn_call.vector, fn_call.student_vector)
    /\ fn_pc' = "done"
    /\ UNCHANGED <<fn_call, pvars>>

InitClusteringMap ==
    /\ \E clusters \in ClusterLists, item_vector \in StudentVectors :
          fn_call = [fn |-> "ClusteringGenerator.map", name |-> "s1",
                     item_vector |-> item_vector,
                     mapper_params |-> ClusteringMapperParams(clusters)]
    /\ fn_pc = "call"
    /\ fn_ret = None
    /\ PipelineUnused

CallClusteringMap ==
    /\ fn_pc = "call"
    /\ fn_call.fn = "ClusteringGenerator.map"
    /\ fn_ret' = ClusteringGenerator_map(fn_call.name, fn_call.item_vector,
                                         fn_call.mapper_params)
    /\ fn_pc' = "done"
    /\ UNCHANGED <<fn_call, pvars>>

InitReduce ==
    /\ \/ \E values \in CountGroups :
             fn_call = [fn |-> "ClusteringGenerator.reduce", item_id |-> JsonInt(1),
                        values |-> values]
       \/ \E values \in PairGroups :
             fn_call = [fn |-> "ClusteringGenerator.reduce",
                        item_id |-> JsonList(<<1, 2>>), values |-> values]
    /\ fn_pc = "call"
    /\ fn_ret = None
    /\ PipelineUnused

CallReduce ==
    /\ fn_pc = "call"
    /\ fn_call.fn = "ClusteringGenerator.reduce"
    /\ fn_ret' = ClusteringGenerator_reduce(fn_call.item_id, fn_call.values)
    /\ fn_pc' = "done"
    /\ UNCHANGED <<fn_call, pvars>>

InitQuestionScore ==
    /\ \E data \in SeqsUpTo(Answers, MaxAnswers) :
          fn_call = [fn |-> "_get_question_score", data |-> data]
    /\ fn_pc = "call"
    /\ fn_ret = None
    /\ PipelineUnused

CallQuestionScore ==
    /\ fn_pc = "call"
    /\ fn_call.fn = "_get_question_score"
    /\ fn_ret' = _get_question_score(fn_call.data, None)
    /\ fn_pc' = "done"
    /\ UNCHANGED <<fn_call, pvars>>

InitUnitScore ==
    /\ \E data \in SeqsUpTo(UnitRecords, MaxRecords), dimension \in UnitDimensions :
          fn_call = [fn |-> "_get_unit_score", data |-> data, dimension |-> dimension]
    /\ fn_pc = "call"
    /\ fn_ret = None
    /\ PipelineUnused

CallUnitScore ==
    /\ fn_pc = "call"
    /\ fn_call.fn = "_get_unit_score"
    /\ fn_ret' = _get_unit_score(fn_call.data, fn_call.dimension)
    /\ fn_pc' = "done"
    /\ UNCHANGED <<fn_call, pvars>>

InitPossibleDimensions ==
    /\ \E units \in CourseUnits :
          fn_call = [fn |-> "get_possible_dimensions", units |-> units]
    /\ fn_pc = "call"
    /\ fn_ret = None
    /\ PipelineUnused

CallPossibleDimensions ==
    /\ fn_pc = "call"
    /\ fn_call.fn = "get_possible_dimensions"
    /\ fn_ret' = get_possible_dimensions(fn_call.units)
    /\ fn_pc' = "done"
    /\ UNCHANGED <<fn_call, pvars>>

InitFn ==
    \/ InitPossibleDimensions
    \/ InitHamming
    \/ InitClusteringMap
    \/ InitReduce
    \/ InitQuestionScore
    \/ InitUnitScore

NextFn ==
    \/ CallPossibleDimensions
    \/ CallHamming
    \/ CallClusteringMap
    \/ CallReduce
    \/ CallQuestionScore
    \/ CallUnitScore

SpecFn == InitFn /\ [][NextFn]_vars

(***************************************************************************)
(* Spec: the batch runs.  A run is the StudentVectorGenerator job over the *)
(* StudentAggregateEntity entities, then the ClusteringGenerator job over  *)
(* the StudentVector entities (its maps, then its reduces).  Between runs  *)
(* the activity data, the course and the clusters may change.              *)
(***************************************************************************)
MaxRuns == 2          \* batch runs

Students == {"s1", "s2"}

QuestionKey == <<DIMENSION_TYPE_QUESTION, pack_question_dimid(Str("1"), Str("1"), Str("7"))>>

CatalogDim(key) == (DIM_TYPE :> key[1]) @@ (DIM_ID :> key[2])

\* The dimension catalogs: a unit (with its count of scored lessons), its
\* lessons, a question.
Catalogs ==
    {<<UnitDimension(JsonDict("unit_scored_lessons" :> 1)),
       CatalogDim(LessonKey), CatalogDim(QuestionKey)>>,
     <<UnitDimension(JsonDict("unit_scored_lessons" :> 2)),
       CatalogDim(LessonKey), CatalogDim(<<DIMENSION_TYPE_LESSON, Str("2")>>)>>}

\* The activity of a student: nothing (the data has no 'assessments', or an
\* empty list), one lesson with an answered question, or two lessons.
LessonActivity(lesson_id, last_score, submissions) ==
    [unit_id |-> Str("1"), lesson_id |-> lesson_id, last_score |-> last_score,
     submissions |-> submissions]

ItemDatas ==
    {<<>>,
     [assessments |-> <<>>],
     [assessments |-> <<LessonActivity(Str("1"), Num(2, 1),
          <<[timestamp |-> 5,
             answers |-> <<[question_id |-> Str("7"), weighted_score |-> Num(3, 5)]>>]>>)>>],
     [assessments |-> <<LessonActivity(Str("1"), Num(1, 2), <<>>),
                        LessonActivity(Str("2"), Num(1, 1), <<>>)>>]}

\* item.data that zlib.decompress or transforms.loads cannot decode.
Undecodable == [t |-> "undecodable"]

\* transforms.loads(zlib.decompress(item.data)) raises (line 497); nothing
\* in map catches it.
loads_raises(item_data) == item_data = Undecodable

\* What the job does with a call of map that raised: the entity is skipped,
\* the call has stored nothing, and the job goes on with the others.
map_failed == <<>>

\* The cluster sets of the runs.
ClusterSets ==
    {l \in ClusterLists : Len(l) = 2 /\ <<l[1].id, l[2].id>> \in {<<9, 1>>, <<3, 2>>}}

InitRuns ==
    /\ StudentAggregateEntity \in [Students -> ItemDatas]
    /\ course_dimensions \in Catalogs
    /\ cluster_entities \in ClusterSets
    /\ StudentVector = [s \in Students |-> NoEntity]
    /\ StudentClusters = [s \in Students |-> NoEntity]
    /\ job = "idle"
    /\ job_params = <<>>
    /\ pending = {}
    /\ map_output = <<>>
    /\ reduce_pending = {}
    /\ job_results = <<>>
    /\ runs = 0
    /\ last_run = NoRun
    /\ previous = NoRun
    /\ map_calls = [s \in Students |-> NoCall]

Init ==
    /\ fn_call = None
    /\ fn_pc = "done"
    /\ fn_ret = None
    /\ InitRuns

\* Between two runs: students answer, the course or the clusters are edited.
ChangeInputs ==
    /\ job = "idle"
    /\ runs \in 1..(MaxRuns - 1)
    /\ StudentAggregateEntity' \in [Students -> ItemDatas]
    /\ course_dimensions' \in Catalogs
    /\ cluster_entities' \in ClusterSets
    /\ UNCHANGED <<fnvars, StudentVector, StudentClusters, job, job_params, pending,
                   map_output, reduce_pending, job_results, runs, last_run, previous,
                   map_calls>>

\* The inputs a run that starts now works on.
current_inputs ==
    [data |-> StudentAggregateEntity,
     possible_dimensions |-> course_dimensions,
     clusters |-> cluster_entities]

\* The StudentVectorGenerator job starts: build_additional_mapper_params
\* (lines 485-486); every StudentAggregateEntity is to be mapped.
StartVectorJob ==
    /\ job = "idle"
    /\ runs < MaxRuns
    /\ job' = "vectors"
    /\ job_params' = [possible_dimensions |-> course_dimensions]
    /\ pending' = Students
    /\ last_run' = current_inputs
    /\ job_results' = <<>>
    /\ previous' = IF runs >= 1 /\ last_run = current_inputs
                   THEN [StudentVector |-> StudentVector,
                         StudentClusters |-> StudentClusters,
                         job_results |-> job_results]
                   ELSE NoRun
    /\ UNCHANGED <<fnvars, inputs, StudentVector, StudentClusters, map_output,
                   reduce_pending, runs, map_calls>>

put_incremental(store, key_name, entity) ==
    IF store[key_name] # NoEntity /\ "vector" \in DOMAIN entity
    THEN [store EXCEPT ![key_name] = [vector |-> store[key_name].vector \o entity.vector]]
    ELSE [store EXCEPT ![key_name] = entity]

\* Entity(key_name=...).put(): the entity replaces the one with its key name.
put(store, key_name, entity) == [store EXCEPT ![key_name] = entity]

RECURSIVE put_all(_, _, _)
put_all(store, puts, i) ==
    IF i > Len(puts) THEN store
    ELSE put_all(put(store, puts[i].key_name, [vector |-> puts[i].vector]), puts, i + 1)

\* StudentVectorGenerator.map on the entity of student s.
VectorMap(s) ==
    /\ job = "vectors"
    /\ s \in pending
    /\ LET puts == IF loads_raises(StudentAggregateEntity[s]) THEN map_failed
                   ELSE StudentVectorGenerator_map(s, StudentAggregateEntity[s],
                                                   job_params)
       IN  StudentVector' = put_all(StudentVector, puts, 1)
    /\ pending' = pending \ {s}
    /\ UNCHANGED <<fnvars, inputs, StudentClusters, job, job_params, map_output,
                   reduce_pending, job_results, runs, last_run, previous,
                   map_calls>>

\* The ClusteringGenerator job starts: build_additional_mapper_params (lines
\* 667-673); every StudentVector entity is to be mapped.
StartClusteringJob ==
    /\ job = "vectors"
    /\ pending = {}
    /\ job' = "clustering"
    /\ job_params' = ClusteringMapperParams(cluster_entities)
    /\ pending' = {s \in Students : StudentVector[s] # NoEntity}
    /\ map_output' = <<>>
    /\ UNCHANGED <<fnvars, inputs, StudentVector, StudentClusters, reduce_pending,
                   job_results, runs, last_run, previous,
                   map_calls>>

\* The call of ClusteringGenerator.map runs on from where it stands: up to
\* its next yield, which goes to the output of the job, or, when it has
\* yielded everything, through the put of StudentClusters (lines 709-710) to
\* its return.  call holds what the call has still to yield and to put.
map_resume(s, call) ==
    IF call.yields # <<>>
    THEN /\ map_output' = map_output (+) SetToBag({Head(call.yields)})
         /\ map_calls' = [map_calls EXCEPT ![s] = [call EXCEPT !.yields = Tail(@)]]
         /\ UNCHANGED <<StudentClusters, pending>>
    ELSE /\ StudentClusters' = put(StudentClusters, call.put.key_name,
                                   [clusters |-> call.put.clusters])
         /\ map_calls' = [map_calls EXCEPT ![s] = NoCall]
         /\ pending' = pending \ {s}
         /\ UNCHANGED map_output

\* ClusteringGenerator.map is called on the StudentVector entity of student
\* s and runs up to its first yield (to its return when it yields nothing).
\* The calls on different entities run side by side.
ClusteringMap(s) ==
    /\ job = "clustering"
    /\ s \in pending
    /\ map_calls[s] = NoCall
    /\ map_resume(s, ClusteringGenerator_map(s, StudentVector[s].vector, job_params))
    /\ UNCHANGED <<fnvars, inputs, StudentVector, job, job_params, reduce_pending,
                   job_results, runs, last_run, previous>>

\* The framework takes the next item of the generator of student s.
ClusteringMapNext(s) ==
    /\ job = "clustering"
    /\ map_calls[s] # NoCall
    /\ map_resume(s, map_calls[s])
    /\ UNCHANGED <<fnvars, inputs, StudentVector, job, job_params, reduce_pending,
                   job_results, runs, last_run, previous>>

\* The maps are done: the output is grouped by key (the order in which the
\* calls yielded is not kept).
StartReduce ==
    /\ job = "clustering"
    /\ pending = {}
    /\ job' = "reduce"
    /\ reduce_pending' = {kv[1] : kv \in BagToSet(map_output)}
    /\ UNCHANGED <<fnvars, inputs, StudentVector, StudentClusters, job_params,
                   pending, map_output, job_results, runs, last_run,
                   previous,
                   map_calls>>

\* The values yielded under a key, each as often as it was yielded, listed
\* in one order.
RECURSIVE ValuesOf(_, _)
ValuesOf(item_id, output) ==
    LET of_key == {kv \in BagToSet(output) : kv[1] = item_id}
    IN  IF of_key = {} THEN <<>>
        ELSE LET kv == CHOOSE x \in of_key : TRUE
             IN  <<kv[2]>> \o ValuesOf(item_id, output (-) SetToBag({kv}))

\* The orders in which the values of a key can reach reduce: any.
Orders(values) ==
    {[n \in DOMAIN values |-> values[p[n]]] : p \in Permutations(DOMAIN values)}

\* ClusteringGenerator.reduce on one key and its values, in any order.
Reduce(item_id) ==
    /\ job = "reduce"
    /\ item_id \in reduce_pending
    /\ \E values \in Orders(ValuesOf(item_id, map_output)) :
          job_results' = (item_id :> ClusteringGenerator_reduce(item_id, values))
                            @@ job_results
    /\ reduce_pending' = reduce_pending \ {item_id}
    /\ UNCHANGED <<fnvars, inputs, StudentVector, StudentClusters, job, job_params,
                   pending, map_output, runs, last_run, previous,
                   map_calls>>

\* ClusterStatisticsDataSource.fetch_values (lines 837-850) on the results
\* of the job, with clusters the clusters that ClusterDAO holds when the
\* statistics are fetched.  A 'count' result is reported under the name of
\* ClusterDAO.load(id), which is None when the cluster is gone: reading its
\* name raises AttributeError (line 842) and nothing is reported.  Otherwise
\* the count statistic has the array of every 'count' result and [0] for
\* every cluster of ClusterDAO.get_all() without one (lines 846-849), and the
\* intersection statistic has the array of every pair, under its first id
\* and then its second.  The names of the clusters are left out.
fetch_values(results, clusters) ==
    LET stored == {clusters[i].id : i \in DOMAIN clusters}
        counted == {key \in DOMAIN results : results[key].l[1] = "count"}
        pairs == {key \in DOMAIN results : results[key].l[1] = "intersection"}
        value(key) == results[key].l[2]
    IN  IF \E key \in counted : value(key)[1] \notin stored
        THEN [raised |-> "AttributeError"]
        ELSE [count |->
                 [id \in {value(key)[1] : key \in counted} \cup stored |->
                     [vectors |-> IF \E key \in counted : value(key)[1] = id
                                  THEN value(CHOOSE key \in counted :
                                                 value(key)[1] = id)[2]
                                  ELSE <<0>>]],
              intersection |->
                 [cluster1 \in {value(key)[1][1] : key \in pairs} |->
                     [cluster2 \in {value(key)[1][2] :
                                        key \in {k \in pairs : value(k)[1][1] = cluster1}} |->
                         value(CHOOSE key \in pairs :
                                   value(key)[1] = <<cluster1, cluster2>>)[2]]],
              distances |-> [max_distance |-> MAX_DISTANCE]]

\* The run is complete.
FinishRun ==
    /\ job = "reduce"
    /\ reduce_pending = {}
    /\ job' = "idle"
    /\ runs' = runs + 1
    /\ map_output' = <<>>
    /\ UNCHANGED <<fnvars, inputs, StudentVector, StudentClusters, job_params,
                   pending, reduce_pending, job_results, last_run,
                   previous,
                   map_calls>>

Next ==
    \/ ChangeInputs
    \/ StartVectorJob
    \/ \E s \in Students : VectorMap(s)
    \/ StartClusteringJob
    \/ \E s \in Students : ClusteringMap(s)
    \/ \E s \in Students : ClusteringMapNext(s)
    \/ StartReduce
    \/ \E item_id \in reduce_pending : Reduce(item_id)
    \/ FinishRun

Spec == Init /\ [][Next]_vars

(***************************************************************************)
(* SpecFail: the batch runs when the data of a student may be undecodable. *)
(* Every student has assessment records or undecodable data.               *)
(***************************************************************************)
ItemDatasFail == {Undecodable} \cup {d \in ItemDatas : GetList(d, "assessments") # <<>>}

InitFail ==
    /\ fn_call = None
    /\ fn_pc = "done"
    /\ fn_ret = None
    /\ StudentAggregateEntity \in [Students -> ItemDatasFail]
    /\ course_dimensions \in Catalogs
    /\ cluster_entities \in ClusterSets
    /\ StudentVector = [s \in Students |-> NoEntity]
    /\ StudentClusters = [s \in Students |-> NoEntity]
    /\ job = "idle"
    /\ job_params = <<>>
    /\ pending = {}
    /\ map_output = <<>>
    /\ reduce_pending = {}
    /\ job_results = <<>>
    /\ runs = 0
    /\ last_run = NoRun
    /\ previous = NoRun
    /\ map_calls = [s \in Students |-> NoCall]

ChangeInputsFail ==
    /\ job = "idle"
    /\ runs \in 1..(MaxRuns - 1)
    /\ StudentAggregateEntity' \in [Students -> ItemDatasFail]
    /\ course_dimensions' \in Catalogs
    /\ cluster_entities' \in ClusterSets
    /\ UNCHANGED <<fnvars, StudentVector, StudentClusters, job, job_params, pending,
                   map_output, reduce_pending, job_results, runs, last_run, previous,
                   map_calls>>

NextFail ==
    \/ ChangeInputsFail
    \/ StartVectorJob
    \/ \E s \in Students : VectorMap(s)
    \/ StartClusteringJob
    \/ \E s \in Students : ClusteringMap(s)
    \/ \E s \in Students : ClusteringMapNext(s)
    \/ StartReduce
    \/ \E item_id \in reduce_pending : Reduce(item_id)
    \/ FinishRun

SpecFail == InitFail /\ [][NextFail]_vars

(***************************************************************************)
(* Claims about hamming_distance                                           *)
(***************************************************************************)
HammingDone == fn_pc = "done" /\ fn_call.fn = "hamming_distance"

LowDefined(dim) == DIM_LOW \in DOMAIN dim /\ dim[DIM_LOW].t = "num"
HighDefined(dim) == DIM_HIGH \in DOMAIN dim /\ dim[DIM_HIGH].t = "num"

InStudentVector(dim, student_vector) ==
    \E j \in DOMAIN student_vector :
        /\ student_vector[j][DIM_TYPE] = dim[DIM_TYPE]
        /\ student_vector[j][DIM_ID] = dim[DIM_ID]

\* The student's value for the dimension's (type, id), 0 when it has none.
StudentValue(dim, student_vector) ==
    IF InStudentVector(dim, student_vector)
    THEN LET j == CHOOSE k \in DOMAIN student_vector :
                      /\ student_vector[k][DIM_TYPE] = dim[DIM_TYPE]
                      /\ student_vector[k][DIM_ID] = dim[DIM_ID]
         IN  student_vector[j][DIM_VALUE]
    ELSE Zero

Rejects(dim, student_vector) ==
    LET v == StudentValue(dim, student_vector)
    IN  \/ LowDefined(dim) /\ NumLt(v, dim[DIM_LOW])
        \/ HighDefined(dim) /\ NumLt(dim[DIM_HIGH], v)

\* C1: hamming_distance returns exactly the number of cluster dimensions that
\* reject the student: a dimension rejects iff its low bound is defined and
\* the student's value is below it, or its high bound is defined and the
\* value is above it; a dimension missing from the student vector counts as
\* value 0.
C1_HammingCountsRejections ==
    HammingDone =>
        fn_ret = Cardinality({i \in DOMAIN fn_call.vector :
                                 Rejects(fn_call.vector[i], fn_call.student_vector)})

\* A call with two dimensions: one is missing from the student vector and is
\* rejected by its low bound (value 0), the other has both bounds and the
\* student's value between them.
C1_Witness ==
    /\ HammingDone
    /\ Len(fn_call.vector) = 2
    /\ fn_ret = 1
    /\ \E i \in DOMAIN fn_call.vector :
          /\ ~InStudentVector(fn_call.vector[i], fn_call.student_vector)
          /\ LowDefined(fn_call.vector[i])
          /\ Rejects(fn_call.vector[i], fn_call.student_vector)
    /\ \E i \in DOMAIN fn_call.vector :
          /\ InStudentVector(fn_call.vector[i], fn_call.student_vector)
          /\ LowDefined(fn_call.vector[i]) /\ HighDefined(fn_call.vector[i])
          /\ ~Rejects(fn_call.vector[i], fn_call.student_vector)

\* C13: the distance hamming_distance returns is an integer between 0 and
\* the number of dimensions in the cluster's dimension list.
C13_DistanceWithinDimensions ==
    HammingDone => fn_ret \in 0..Len(fn_call.vector)

\* A call in which every one of the two dimensions of the cluster rejects:
\* the distance is the number of dimensions.
C13_Witness ==
    /\ HammingDone
    /\ Len(fn_call.vector) = 2
    /\ \A i \in DOMAIN fn_call.vector : Rejects(fn_call.vector[i], fn_call.student_vector)
    /\ fn_ret = 2

\* Neither bound of the dimension is set: each is absent, None or ''.
NeitherBound(dim) ==
    /\ DIM_LOW \notin DOMAIN dim \/ dim[DIM_LOW] \in {None, EmptyStr}
    /\ DIM_HIGH \notin DOMAIN dim \/ dim[DIM_HIGH] \in {None, EmptyStr}

\* C14: a cluster dimension with neither bound set never contributes to the
\* distance, whatever the student's value: the distance is at most the
\* number of the other dimensions, it is the distance to the cluster without
\* those dimensions, and it is 0 when no dimension has a bound (a cluster
\* with an empty dimension list included).
C14_UnboundedDimensionsNeverReject ==
    HammingDone =>
        /\ fn_ret <= Cardinality({i \in DOMAIN fn_call.vector :
                                     ~NeitherBound(fn_call.vector[i])})
        /\ fn_ret = hamming_distance(
                        SelectSeq(fn_call.vector, LAMBDA dim : ~NeitherBound(dim)),
                        fn_call.student_vector)
        /\ (\A i \in DOMAIN fn_call.vector : NeitherBound(fn_call.vector[i]))
               => fn_ret = 0

\* A call with a dimension without bounds for which the student has a value
\* that is not 0, and a dimension with a bound that rejects: distance 1.
C14_Witness ==
    /\ HammingDone
    /\ fn_ret = 1
    /\ \E i, j \in DOMAIN fn_call.vector :
          /\ NeitherBound(fn_call.vector[i])
          /\ InStudentVector(fn_call.vector[i], fn_call.student_vector)
          /\ StudentValue(fn_call.vector[i], fn_call.student_vector) # Zero
          /\ ~NeitherBound(fn_call.vector[j])
          /\ Rejects(fn_call.vector[j], fn_call.student_vector)

(***************************************************************************)
(* Claims about ClusteringGenerator.map                                    *)
(***************************************************************************)
MapDone == fn_pc = "done" /\ fn_call.fn = "ClusteringGenerator.map"

MapClusters == fn_call.mapper_params.clusters

\* The distance of the call's student vector to a cluster.
DistanceTo(cluster) == hamming_distance(cluster.vector, fn_call.item_vector)

Retained(cluster) == DistanceTo(cluster) <= fn_call.mapper_params.max_distance

\* The observations yielded under a key.
YieldsOf(key) == {n \in DOMAIN fn_ret.yields : fn_ret.yields[n][1] = key}

RetainedIds == {MapClusters[i].id : i \in {k \in DOMAIN MapClusters : Retained(MapClusters[k])}}

\* C2: map retains a cluster iff its distance is <= max_distance, yields
\* exactly one per-cluster observation (student id, distance) for each
\* retained cluster and none for a discarded one, and the classification
\* record it stores maps exactly the retained cluster ids to those distances.
C2_MapRetainsWithinMaxDistance ==
    MapDone =>
        /\ \A i \in DOMAIN MapClusters :
              LET c == MapClusters[i]
              IN  /\ Cardinality(YieldsOf(JsonInt(c.id))) = IF Retained(c) THEN 1 ELSE 0
                  /\ \A n \in YieldsOf(JsonInt(c.id)) :
                        fn_ret.yields[n][2] = JsonList(<<fn_call.name, DistanceTo(c)>>)
                  /\ Retained(c) =>
                        /\ ToString(c.id) \in DOMAIN fn_ret.put.clusters
                        /\ fn_ret.put.clusters[ToString(c.id)] = DistanceTo(c)
        /\ \A n \in DOMAIN fn_ret.yields :
              fn_ret.yields[n][1].json = "int" => fn_ret.yields[n][1].i \in RetainedIds
        /\ DOMAIN fn_ret.put.clusters = {ToString(id) : id \in RetainedIds}
        /\ fn_ret.put.key_name = fn_call.name

\* A call with a cluster at distance 0, one at exactly max_distance (both
\* retained) and one beyond it (discarded).
C2_Witness ==
    /\ MapDone
    /\ \E i, j, k \in DOMAIN MapClusters :
          /\ DistanceTo(MapClusters[i]) = 0
          /\ DistanceTo(MapClusters[j]) = MAX_DISTANCE
          /\ DistanceTo(MapClusters[k]) > MAX_DISTANCE
          /\ ToString(MapClusters[j].id) \in DOMAIN fn_ret.put.clusters
          /\ ToString(MapClusters[k].id) \notin DOMAIN fn_ret.put.clusters

\* C3: map yields a pairwise observation for every unordered pair of distinct
\* retained clusters exactly once, under the key (A, B) where A comes before
\* B in the cluster list; never under (B, A), and never for a pair with a
\* discarded cluster.
C3_PairsOnceInListOrder ==
    MapDone =>
        /\ \A i, j \in DOMAIN MapClusters :
              (i < j /\ Retained(MapClusters[i]) /\ Retained(MapClusters[j])) =>
                  /\ Cardinality(YieldsOf(JsonList(<<MapClusters[i].id, MapClusters[j].id>>))) = 1
                  /\ YieldsOf(JsonList(<<MapClusters[j].id, MapClusters[i].id>>)) = {}
        /\ \A n \in DOMAIN fn_ret.yields :
              fn_ret.yields[n][1].json = "list" =>
                  \E i, j \in DOMAIN MapClusters :
                      /\ i < j
                      /\ Retained(MapClusters[i]) /\ Retained(MapClusters[j])
                      /\ fn_ret.yields[n][1].l = <<MapClusters[i].id, MapClusters[j].id>>

\* A call with three clusters whose ids are not in list order: the middle
\* one is discarded, the outer two are retained and yield one pair.
C3_Witness ==
    /\ MapDone
    /\ Len(MapClusters) = 3
    /\ MapClusters[1].id > MapClusters[3].id
    /\ Retained(MapClusters[1]) /\ ~Retained(MapClusters[2]) /\ Retained(MapClusters[3])
    /\ Cardinality({n \in DOMAIN fn_ret.yields : fn_ret.yields[n][1].json = "list"}) = 1
    /\ YieldsOf(JsonList(<<MapClusters[1].id, MapClusters[3].id>>)) # {}

\* The cluster of the call with the given id.
ClusterWithId(id) ==
    MapClusters[CHOOSE i \in DOMAIN MapClusters : MapClusters[i].id = id]

\* C4: in every pairwise observation yielded under key (first_id, second_id)
\* the value is (student id, distance to first, distance to second).
C4_PairValueInKeyOrder ==
    MapDone =>
        \A n \in DOMAIN fn_ret.yields :
            fn_ret.yields[n][1].json = "list" =>
                LET first == ClusterWithId(fn_ret.yields[n][1].l[1])
                    second == ClusterWithId(fn_ret.yields[n][1].l[2])
                IN  fn_ret.yields[n][2] =
                        JsonList(<<fn_call.name, DistanceTo(first), DistanceTo(second)>>)

(***************************************************************************)
(* Claims about ClusteringGenerator.reduce                                 *)
(***************************************************************************)
ReduceDone == fn_pc = "done" /\ fn_call.fn = "ClusteringGenerator.reduce"

IsPairGroup == fn_call.item_id.json = "list"

\* The array of the yielded tuple (stat_name, (item_id, array)).
ReducedArray == fn_ret.l[2][2]

\* The distance at which an observation of the group counts.
ObservedDistance(n) ==
    IF IsPairGroup
    THEN IF fn_call.values[n].l[2] >= fn_call.values[n].l[3]
         THEN fn_call.values[n].l[2] ELSE fn_call.values[n].l[3]
    ELSE fn_call.values[n].l[2]

\* C5: for a non-empty group, reduce yields an array of length (maximum
\* observed distance) + 1 whose entry d is the number of observations with
\* distance <= d; so the array is non-decreasing, and the distances
\* [0, 0, 1, 2] yield [2, 3, 4].
C5_ReduceCumulativeCounts ==
    ReduceDone =>
        LET maxd == CHOOSE d \in YieldedDistances :
                        /\ \E n \in DOMAIN fn_call.values : ObservedDistance(n) = d
                        /\ \A n \in DOMAIN fn_call.values : ObservedDistance(n) <= d
        IN  /\ Len(ReducedArray) = maxd + 1
            /\ \A d \in 0..maxd :
                  ReducedArray[d + 1] =
                      Cardinality({n \in DOMAIN fn_call.values : ObservedDistance(n) <= d})
            /\ \A d \in 0..(maxd - 1) : ReducedArray[d + 1] <= ReducedArray[d + 2]
            /\ ([n \in DOMAIN fn_call.values |-> ObservedDistance(n)] = <<0, 0, 1, 2>>
                    => ReducedArray = <<2, 3, 4>>)

\* The per-cluster group with distances [0, 0, 1, 2] has been reduced to
\* the 'count' array [2, 3, 4].
C5_Witness ==
    /\ ReduceDone
    /\ ~IsPairGroup
    /\ [n \in DOMAIN fn_call.values |-> fn_call.values[n].l[2]] = <<0, 0, 1, 2>>
    /\ fn_ret = JsonList(<<"count", <<1, <<2, 3, 4>>>>>>)

\* C6: for a cluster-pair group, entry d of the 'intersection' array is the
\* number of students whose distance to both clusters of the pair is <= d
\* (each observation counts at the maximum of its two distances).
C6_IntersectionAtMaxDistance ==
    (ReduceDone /\ IsPairGroup) =>
        /\ fn_ret.l[1] = "intersection"
        /\ fn_ret.l[2][1] = fn_call.item_id.l
        /\ \A d \in 0..(Len(ReducedArray) - 1) :
              ReducedArray[d + 1] =
                  Cardinality({n \in DOMAIN fn_call.values :
                                  /\ fn_call.values[n].l[2] <= d
                                  /\ fn_call.values[n].l[3] <= d})
        /\ \A n \in DOMAIN fn_call.values :
              /\ fn_call.values[n].l[2] < Len(ReducedArray)
              /\ fn_call.values[n].l[3] < Len(ReducedArray)

\* A pair group with a student at distances (0, 2) and one at (1, 1): the
\* first counts only from distance 2 on.
C6_Witness ==
    /\ ReduceDone
    /\ IsPairGroup
    /\ \E n \in DOMAIN fn_call.values :
          fn_call.values[n].l[2] = 0 /\ fn_call.values[n].l[3] = 2
    /\ \E n \in DOMAIN fn_call.values :
          fn_call.values[n].l[2] = 1 /\ fn_call.values[n].l[3] = 1
    /\ ReducedArray = <<0, 1, 2>>

(***************************************************************************)
(* Claims about the scores                                                 *)
(***************************************************************************)
QuestionScoreDone == fn_pc = "done" /\ fn_call.fn = "_get_question_score"

\* Every answer of the call has a weighted score (0 included).
AllScored == \A n \in DOMAIN fn_call.data : "weighted_score" \in DOMAIN fn_call.data[n]

\* The answers with the maximum timestamp among all the answers.
LatestAnswers ==
    {n \in DOMAIN fn_call.data :
        \A m \in DOMAIN fn_call.data :
            fn_call.data[m]["timestamp"] <= fn_call.data[n]["timestamp"]}

\* The weighted scores of the latest answers, from answer n on.
RECURSIVE LatestScores(_)
LatestScores(n) ==
    IF n > Len(fn_call.data) THEN <<>>
    ELSE (IF n \in LatestAnswers THEN <<fn_call.data[n]["weighted_score"]>> ELSE <<>>)
             \o LatestScores(n + 1)

\* C7: _get_question_score returns the average of the weighted scores of all
\* the answers whose timestamp is the maximum timestamp among all the answers
\* (answers with weighted score 0 included), and 0 when there is no answer;
\* [5: 0.6, 5: 0.8, 9: 1.0] gives 1.0 and [9: 0.6, 9: 1.0] gives 0.8.
C7_QuestionScoreLatestAverage ==
    (QuestionScoreDone /\ AllScored) =>
        fn_ret = IF fn_call.data = <<>> THEN Zero
                 ELSE NumDivInt(fsum(LatestScores(1)), Cardinality(LatestAnswers))

UnitScoreDone == fn_pc = "done" /\ fn_call.fn = "_get_unit_score"

\* The records of the call that count for the unit: those with the unit's
\* id (and a last_score).
UnitRecordsOf ==
    {n \in DOMAIN fn_call.data :
        /\ "unit_id" \in DOMAIN fn_call.data[n]
        /\ fn_call.data[n]["unit_id"] = fn_call.dimension[DIM_ID]
        /\ "last_score" \in DOMAIN fn_call.data[n]}

\* The float sum of the last scores of these records, added one after the
\* other in the order of the records, from record n on and starting from sum.
RECURSIVE SumLastScores(_, _)
SumLastScores(n, sum) ==
    IF n > Len(fn_call.data) THEN sum
    ELSE SumLastScores(n + 1, IF n \in UnitRecordsOf
                                 THEN NumAdd(sum, fn_call.data[n]["last_score"])
                                 ELSE sum)

UnitSum == SumLastScores(1, Zero)

\* The divisor the claim states: the scored-lesson count of extra_info, 1
\* when extra_info is absent, has no count, or the count is below 1.
UnitDivisor ==
    IF DIM_EXTRA_INFO \notin DOMAIN fn_call.dimension THEN 1
    ELSE IF "unit_scored_lessons" \notin DOMAIN fn_call.dimension[DIM_EXTRA_INFO].d THEN 1
    ELSE IF fn_call.dimension[DIM_EXTRA_INFO].d["unit_scored_lessons"] < 1 THEN 1
    ELSE fn_call.dimension[DIM_EXTRA_INFO].d["unit_scored_lessons"]

\* C8: _get_unit_score returns the sum of last_score over the records whose
\* unit id is the dimension's id, divided by the scored-lesson count of
\* extra_info; the divisor is 1 when extra_info is absent, has no count or
\* the count is below 1, and is never 0; count 2 and sum 1.5 give 0.75.
C8_UnitScoreAverage ==
    UnitScoreDone =>
        /\ UnitDivisor >= 1
        /\ fn_ret = NumDivInt(UnitSum, UnitDivisor)
        /\ (UnitDivisor = 2 /\ UnitSum = Num(3, 2))
               => fn_ret = Num(3, 4)

\* The unit with two scored lessons and the scores 1 and 0.5 of its
\* records gets 0.75; a record of another unit is in the data too.
C8_Witness ==
    /\ UnitScoreDone
    /\ UnitDivisor = 2
    /\ Cardinality(UnitRecordsOf) = 2
    /\ UnitSum = Num(3, 2)
    /\ fn_ret = Num(3, 4)

(***************************************************************************)
(* Claims about the batch runs                                             *)
(***************************************************************************)
\* The raw activity data is missing or empty: no 'assessments' records.
NoData(item_data) ==
    "assessments" \notin DOMAIN item_data \/ item_data["assessments"] = <<>>

\* The vector with one entry per catalog dimension, each with score 0.
ZeroVector(possible_dimensions) ==
    [i \in DOMAIN possible_dimensions |->
        (DIM_TYPE :> possible_dimensions[i][DIM_TYPE])
        @@ (DIM_ID :> possible_dimensions[i][DIM_ID])
        @@ (DIM_VALUE :> Zero)]

\* The vector job of the current run has mapped student s.
VectorMapped(s) ==
    \/ job = "vectors" /\ s \notin pending
    \/ job \in {"clustering", "reduce"}
    \/ job = "idle" /\ runs >= 1

\* C9: for a student whose raw activity data is missing or empty,
\* StudentVectorGenerator.map produces a vector with one entry per catalog
\* dimension, each with score 0, rather than no vector.
C9_NoDataGivesZeroVector ==
    \A s \in Students :
        (VectorMapped(s) /\ NoData(last_run.data[s])) =>
            StudentVector[s] = [vector |-> ZeroVector(last_run.possible_dimensions)]

\* What a run stores for a student on an empty datastore: the entities
\* computed from the run's inputs alone.
VectorFrom(s, item_data, possible_dimensions) ==
    LET puts == StudentVectorGenerator_map(s, item_data,
                                           [possible_dimensions |-> possible_dimensions])
    IN  IF puts = <<>> THEN NoEntity ELSE [vector |-> puts[1].vector]

ClustersFrom(s, vector_entity, clusters) ==
    IF vector_entity = NoEntity THEN NoEntity
    ELSE [clusters |-> ClusteringGenerator_map(s, vector_entity.vector,
                           ClusteringMapperParams(clusters)).put.clusters]

\* C10: after any sequence of runs, each student's stored vector and stored
\* classification record are exactly those computed from the inputs (activity
\* log, dimension catalog, cluster set) of the most recent run: nothing
\* computed in an earlier run from other inputs survives.
C10_StoredIsLastRunOnly ==
    (job = "idle" /\ runs >= 1) =>
        \A s \in Students :
            LET fresh == VectorFrom(s, last_run.data[s], last_run.possible_dimensions)
            IN  /\ StudentVector[s] = fresh
                /\ StudentClusters[s] = ClustersFrom(s, fresh, last_run.clusters)

(***************************************************************************)
(* Claims about get_possible_dimensions                                    *)
(***************************************************************************)
PossibleDimensionsDone == fn_pc = "done" /\ fn_call.fn = "get_possible_dimensions"

\* The content item is a lesson without the tallied flag.
UntalliedLesson(item) ==
    /\ Truthy(Get(item, "lesson_id"))
    /\ "unit_id" \notin DOMAIN item
    /\ ~Truthy(Get(item, "tallied"))

\* The result has a question dimension with the id.
HasQuestionDimension(dim_id) ==
    \E n \in DOMAIN fn_ret :
        fn_ret[n][DIM_TYPE] = DIMENSION_TYPE_QUESTION /\ fn_ret[n][DIM_ID] = dim_id

\* C15: get_possible_dimensions never emits a question dimension for a
\* question of a lesson without the tallied flag.
C15_NoQuestionsOfUntalliedLessons ==
    PossibleDimensionsDone =>
        \A u \in DOMAIN fn_call.units :
            \A i \in DOMAIN fn_call.units[u]["contents"] :
                LET item == fn_call.units[u]["contents"][i]
                IN  UntalliedLesson(item) =>
                        \A q \in DOMAIN item["questions"] :
                            ~HasQuestionDimension(
                                pack_question_dimid(fn_call.units[u]["unit_id"],
                                                    item["lesson_id"],
                                                    item["questions"][q]["id"]))

(***************************************************************************)
(* Claims about failures, reruns and the aggregates                        *)
(***************************************************************************)
\* The maps and the reduces of the current run are done.
RunComplete == job = "reduce" /\ reduce_pending = {}

\* The observations of the current run that name student s.
ObservationsOf(s) == {kv \in BagToSet(map_output) : kv[2].l[1] = s}

\* C11: a failure while processing one student's input never aborts the
\* batch: that student contributes no observation to any aggregate of the
\* run, and every other student has a vector and a classification record
\* recomputed from the run's inputs.
C11_FailedStudentIsolated ==
    RunComplete =>
        \A s \in Students :
            IF loads_raises(last_run.data[s])
            THEN ObservationsOf(s) = {}
            ELSE LET fresh == VectorFrom(s, last_run.data[s],
                                         last_run.possible_dimensions)
                 IN  /\ StudentVector[s] = fresh
                     /\ StudentClusters[s] = ClustersFrom(s, fresh, last_run.clusters)

\* C12: a run of the full pipeline on the inputs of the previous run leaves
\* the same student vectors, the same classification records and the same
\* aggregate statistics as the previous run left.
C12_RerunIdempotent ==
    (job = "idle" /\ previous # NoRun) =>
        /\ StudentVector = previous.StudentVector
        /\ StudentClusters = previous.StudentClusters
        /\ job_results = previous.job_results

\* A second run on the inputs of the first has completed; both students
\* have a vector and a record, and the statistics have a 'count' and an
\* 'intersection' group.
C12_Witness ==
    /\ job = "idle"
    /\ runs = 2
    /\ previous # NoRun
    /\ \A s \in Students : StudentVector[s] # NoEntity /\ StudentClusters[s] # NoEntity
    /\ \E k \in DOMAIN job_results : k.json = "int"
    /\ \E k \in DOMAIN job_results : k.json = "list"

\* The record of student s has the cluster, and its distance there.
InRecord(s, cluster_id) ==
    /\ StudentClusters[s] # NoEntity
    /\ ToString(cluster_id) \in DOMAIN StudentClusters[s].clusters

RecordedDistance(s, cluster_id) == StudentClusters[s].clusters[ToString(cluster_id)]

\* The students of a group (a cluster or a pair of clusters) and the
\* distance at which a student counts in it.
GroupMembers(key) ==
    IF key.json = "int" THEN {s \in Students : InRecord(s, key.i)}
    ELSE {s \in Students : InRecord(s, key.l[1]) /\ InRecord(s, key.l[2])}

GroupDistance(s, key) ==
    IF key.json = "int" THEN RecordedDistance(s, key.i)
    ELSE IF RecordedDistance(s, key.l[1]) >= RecordedDistance(s, key.l[2])
         THEN RecordedDistance(s, key.l[1]) ELSE RecordedDistance(s, key.l[2])

\* The array of the statistic of a group.
StatArray(key) == job_results[key].l[2][2]

\* C16: the aggregate statistics do not depend on the order in which the
\* students are classified or the observations of a group reach reduce: the
\* array of every group is determined by the set of the students classified
\* in the group and their distances (entry d is the number of them at
\* distance <= d, up to their greatest distance).
C16_AggregatesOrderFree ==
    job \in {"reduce", "idle"} =>
        \A key \in DOMAIN job_results :
            LET array == StatArray(key)
                members == GroupMembers(key)
            IN  /\ job_results[key].l[1] =
                      IF key.json = "int" THEN "count" ELSE "intersection"
                /\ \E s \in members : GroupDistance(s, key) = Len(array) - 1
                /\ \A s \in members : GroupDistance(s, key) <= Len(array) - 1
                /\ \A d \in 0..(Len(array) - 1) :
                      array[d + 1] =
                          Cardinality({s \in members : GroupDistance(s, key) <= d})

\* A group has been reduced that holds an observation of s1 and one of s2,
\* at different distances; another group is still to reduce.
C16_Witness ==
    /\ job = "reduce"
    /\ reduce_pending # {}
    /\ \E key \in DOMAIN job_results :
          LET values == ValuesOf(key, map_output)
          IN  /\ Len(values) = 2
              /\ {values[1].l[1], values[2].l[1]} = {"s1", "s2"}
              /\ GroupDistance("s1", key) # GroupDistance("s2", key)

\* Entry d of an array; past its end, its last entry.
EntryAt(array, d) == IF d + 1 <= Len(array) THEN array[d + 1] ELSE array[Len(array)]

\* C17: after a complete run, for every cluster pair (A, B) with an
\* 'intersection' array and every distance d in 0..max_distance, the
\* intersection count at d is at most the 'count' of A at d and the 'count'
\* of B at d (an array read past its end yields its last entry).
C17_IntersectionWithinCounts ==
    (job = "idle" /\ runs >= 1) =>
        \A key \in DOMAIN job_results :
            key.json = "list" =>
                /\ JsonInt(key.l[1]) \in DOMAIN job_results
                /\ JsonInt(key.l[2]) \in DOMAIN job_results
                /\ \A d \in 0..MAX_DISTANCE :
                      /\ EntryAt(StatArray(key), d)
                            <= EntryAt(StatArray(JsonInt(key.l[1])), d)
                      /\ EntryAt(StatArray(key), d)
                            <= EntryAt(StatArray(JsonInt(key.l[2])), d)

\* A run has left a pair whose intersection at distance 0 is below the
\* count of one of its clusters, and one of the three arrays is shorter
\* than max_distance + 1 (it is read past its end).
C17_Witness ==
    /\ job = "idle"
    /\ runs >= 1
    /\ \E key \in DOMAIN job_results :
          /\ key.json = "list"
          /\ EntryAt(StatArray(key), 0) < EntryAt(StatArray(JsonInt(key.l[1])), 0)
          /\ Len(StatArray(key)) > Len(StatArray(JsonInt(key.l[1])))
          /\ Len(StatArray(JsonInt(key.l[1]))) < MAX_DISTANCE + 1

\* The ids of the clusters of the most recent run.
RunClusterIds == {last_run.clusters[i].id : i \in DOMAIN last_run.clusters}

\* The statistics of the run as fetch_values reports them on the clusters
\* of the run.
Fetched == fetch_values(job_results, last_run.clusters)

\* The statistics as fetch_values reports them on the clusters stored now
\* (clusters may have been deleted or created since the run).
FetchedNow == fetch_values(job_results, cluster_entities)

\* The count statistic agrees with the classification records: the array of
\* every cluster reported ends with the number of students whose stored
\* record contains the cluster, and a cluster in no record has no 'count'
\* group and is reported as [0].
CountAgrees(count) ==
    \A id \in DOMAIN count :
        LET vectors == count[id].vectors
            containing == {s \in Students : InRecord(s, id)}
        IN  /\ vectors[Len(vectors)] = Cardinality(containing)
            /\ containing = {} <=> JsonInt(id) \notin DOMAIN job_results
            /\ containing = {} => vectors = <<0>>

\* C18: after a complete run the classification records and the 'count'
\* statistics agree: for every cluster of the run the last entry of its
\* 'count' array is the number of students whose stored record contains the
\* cluster; a cluster in no record has no 'count' group and is reported as
\* [0]; every 'count' and 'intersection' array has at most max_distance + 1
\* entries.  Whatever fetch_values reports on the clusters stored later
\* agrees with the records too.
C18_CountsAgreeWithRecords ==
    (job = "idle" /\ runs >= 1) =>
        /\ DOMAIN Fetched.count = RunClusterIds
        /\ CountAgrees(Fetched.count)
        /\ "count" \in DOMAIN FetchedNow => CountAgrees(FetchedNow.count)
        /\ \A key \in DOMAIN job_results : Len(StatArray(key)) <= MAX_DISTANCE + 1
        /\ \A key \in DOMAIN job_results :
              key.json = "int" => key.i \in RunClusterIds

\* A run has left a cluster in the records of both students, with a 'count'
\* array ending in 2, and a cluster in no record (both students are beyond
\* max_distance), which has no 'count' group and is reported as [0].
C18_Witness ==
    /\ job = "idle"
    /\ runs >= 1
    /\ \E id \in RunClusterIds :
          /\ \A s \in Students : InRecord(s, id)
          /\ JsonInt(id) \in DOMAIN job_results
          /\ Fetched.count[id].vectors[Len(Fetched.count[id].vectors)] = 2
    /\ \E id \in RunClusterIds :
          /\ \A s \in Students : ~InRecord(s, id)
          /\ JsonInt(id) \notin DOMAIN job_results
          /\ Fetched.count[id].vectors = <<0>>

====
